---- MODULE Spec2Model ----
(***************************************************************************)
(* Model of the web summarizer service: the two Flask programs             *)
(* src/web_api.py and src/web-summarize.py.  Both define                   *)
(*   is_valid_url, extract_text_from_url and the POST /summarize handler.  *)
(* Strings are sequences of one-character strings, so that the regular     *)
(* expression of is_valid_url and str.split()/" ".join() are computed      *)
(* character by character.                                                 *)
(***************************************************************************)
EXTENDS Integers, Sequences, FiniteSets, TLC

(***************************************************************************)
(* Characters                                                              *)
(***************************************************************************)
NL == "\n"

\* str.split() with no argument splits on runs of whitespace.
Whitespace == {" ", NL}

\* The characters the model draws strings from that \w matches.
WordChars == {"a", "b", "h", "t", "p", "s", "w", "e", "u", "r", "l", "_", "X", "Y"}

\* [\w\-]
IsLabelChar(c) == c \in WordChars \/ c = "-"

\* s.startswith(p)
StartsWith(s, p) == Len(p) <= Len(s) /\ SubSeq(s, 1, Len(p)) = p

(***************************************************************************)
(* is_valid_url: re.match of the pattern                                   *)
(*     ^ (https?:\/\/)? ( [\w\-]+ (\.[\w\-]+)+ [\/]? DOT-STAR ) $            *)
(* The matcher follows the pattern piece by piece, keeping the set of      *)
(* positions (1..Len+1) the engine can be at after each piece.             *)
(***************************************************************************)
HTTP == <<"h", "t", "t", "p", ":", "/", "/">>
HTTPS == <<"h", "t", "t", "p", "s", ":", "/", "/">>

\* (https?:\/\/)?  from position 1
AfterScheme(s) ==
    {1} \cup (IF StartsWith(s, HTTP) THEN {Len(HTTP) + 1} ELSE {})
        \cup (IF StartsWith(s, HTTPS) THEN {Len(HTTPS) + 1} ELSE {})

\* [\w\-]+  from any position of P
AfterLabel(s, P) ==
    {q \in 2..(Len(s) + 1) :
        \E p \in P : p < q /\ \A i \in p..(q - 1) : IsLabelChar(s[i])}

\* \.[\w\-]+  from any position of P
AfterDotLabel(s, P) ==
    AfterLabel(s, {p + 1 : p \in {x \in P : x <= Len(s) /\ s[x] = "."}})

\* (\.[\w\-]+)+  from any position of P: one or more repetitions.
RECURSIVE AfterDotLabelsFrom(_, _, _)
AfterDotLabelsFrom(s, seen, frontier) ==
    LET next == AfterDotLabel(s, frontier) \ seen
    IN  IF next = {} THEN seen
        ELSE AfterDotLabelsFrom(s, seen \cup next, next)

\* The pattern with (\.[\w\-]+) repeated zero or more times instead of one or more.
AfterDotLabelPlusMutStar(s, P) == P \cup AfterDotLabelsFrom(s, {}, P)

AfterDotLabelPlus(s, P) == AfterDotLabelsFrom(s, {}, P)

\* [\/]?
AfterOptSlash(s, P) ==
    P \cup {p + 1 : p \in {x \in P : x <= Len(s) /\ s[x] = "/"}}

\* DOT-STAR: the dot matches any character but the line feed
AfterDotStar(s, P) ==
    {q \in 1..(Len(s) + 1) :
        \E p \in P : p <= q /\ \A i \in p..(q - 1) : s[i] # NL}

\* $  (the end of the string, or just before a line feed that ends it)
AtEnd(s, q) == q = Len(s) + 1 \/ (q = Len(s) /\ s[q] = NL)

is_valid_url(s) ==
    \E q \in AfterDotStar(s,
               AfterOptSlash(s,
                 AfterDotLabelPlus(s,
                   AfterLabel(s, AfterScheme(s))))) : AtEnd(s, q)

(***************************************************************************)
(* Truncation: len(content.split()) > n, " ".join(content.split()[:n])     *)
(***************************************************************************)
\* content.split(): the maximal runs of non-whitespace characters, in order.
RECURSIVE SplitFrom(_, _, _, _)
SplitFrom(s, i, cur, acc) ==
    IF i > Len(s) THEN (IF cur = <<>> THEN acc ELSE Append(acc, cur))
    ELSE IF s[i] \in Whitespace
         THEN SplitFrom(s, i + 1, <<>>, IF cur = <<>> THEN acc ELSE Append(acc, cur))
         ELSE SplitFrom(s, i + 1, Append(cur, s[i]), acc)

Split(s) == SplitFrom(s, 1, <<>>, <<>>)

\* " ".join(words)
RECURSIVE Join(_)
Join(words) ==
    IF words = <<>> THEN <<>>
    ELSE IF Len(words) = 1 THEN words[1]
    ELSE words[1] \o <<" ">> \o Join(Tail(words))

\* words[:n]
Take(words, n) == SubSeq(words, 1, IF n < Len(words) THEN n ELSE Len(words))

\* The cap with the slice one word too long.
TruncateMutOffByOne(content, n) ==
    IF Len(Split(content)) > n THEN Join(Take(Split(content), n + 1)) ELSE content

Truncate(content, n) ==
    IF Len(Split(content)) > n THEN Join(Take(Split(content), n)) ELSE content

(***************************************************************************)
(* JSON values of a request body, as request.get_json() hands them over.   *)
(* Every value is a record of the same shape; "malformed" stands for a     *)
(* body get_json() cannot parse (it raises BadRequest).                    *)
(***************************************************************************)
Scalar(k, n, s) == [kind |-> k, num |-> n, str |-> s]
JNull == Scalar("null", 0, <<>>)
JNum(n) == Scalar("number", n, <<>>)
JStr(s) == Scalar("string", 0, s)

Value(k, n, s, e, m) == [kind |-> k, num |-> n, str |-> s, elems |-> e, members |-> m]
Malformed == Value("malformed", 0, <<>>, <<>>, <<>>)
OfScalar(v) == Value(v.kind, v.num, v.str, <<>>, <<>>)
JArray(e) == Value("array", 0, <<>>, e, <<>>)
JObject(m) == Value("object", 0, <<>>, <<>>, m)
Member(k, v) == [key |-> k, val |-> v]

\* The key the handler looks up: "web_url".
WEB_URL == <<"w", "e", "b", "_", "u", "r", "l">>

\* bool(data) of Python: None, 0, "", [] and {} are falsy.
Truthy(d) ==
    CASE d.kind = "null" -> FALSE
      [] d.kind = "number" -> d.num # 0
      [] d.kind = "string" -> d.str # <<>>
      [] d.kind = "array" -> d.elems # <<>>
      [] d.kind = "object" -> d.members # <<>>
      [] OTHER -> FALSE

\* key in data raises TypeError when data is a number (not iterable).
InRaises(d) == d.kind = "number"

\* key in data: a key of a dict, an element of a list, a substring of a str.
Contains(key, d) ==
    CASE d.kind = "object" -> \E i \in 1..Len(d.members) : d.members[i].key = key
      [] d.kind = "array" -> \E i \in 1..Len(d.elems) : d.elems[i] = JStr(key)
      [] d.kind = "string" ->
            \E i \in 1..(Len(d.str) + 1 - Len(key)) :
                SubSeq(d.str, i, i + Len(key) - 1) = key
      [] OTHER -> FALSE

\* data[key] raises TypeError on a list or a str (the index is a str).
GetItemRaises(key, d) == d.kind # "object" \/ ~Contains(key, d)

\* data[key] of a dict (the last member of that name wins in json.loads).
GetItem(key, d) ==
    LET I == {i \in 1..Len(d.members) : d.members[i].key = key}
    IN  d.members[CHOOSE i \in I : \A j \in I : j <= i].val

(***************************************************************************)
(* The responses of the handler: jsonify(...) and the status.              *)
(***************************************************************************)
NoSummary == <<>>

ErrorResponse(status, keys) == [status |-> status, keys |-> keys, summary |-> NoSummary]

\* return jsonify({"summary": summary})   (status 200 by default)
SummaryResponse(summary) == [status |-> 200, keys |-> {"summary"}, summary |-> summary]

(***************************************************************************)
(* Stage 1: the input check and the URL validation.                        *)
(***************************************************************************)
MissingResponse == ErrorResponse(400, {"error"})
InvalidResponse == ErrorResponse(400, {"error"})

\* except Exception as e: ... "Terjadi error internal" ..., 500
InternalResponse(variant) ==
    ErrorResponse(500, IF variant = "web_api" THEN {"error"} ELSE {"error", "details"})

Reply(resp) == [ok |-> FALSE, resp |-> resp, url |-> <<>>]
Proceed(url) == [ok |-> TRUE, resp |-> MissingResponse, url |-> url]

\* re.match(pattern, url) raises TypeError when url is not a str.
ValidateRaises(v) == v.kind # "string"

InputStage(variant, data) ==
    IF data.kind = "malformed" THEN Reply(InternalResponse(variant))
    ELSE IF ~Truthy(data) THEN Reply(MissingResponse)
    ELSE IF InRaises(data) THEN Reply(InternalResponse(variant))
    ELSE IF ~Contains(WEB_URL, data) THEN Reply(MissingResponse)
    ELSE IF GetItemRaises(WEB_URL, data) THEN Reply(InternalResponse(variant))
    ELSE LET web_url == GetItem(WEB_URL, data)
         IN  IF ValidateRaises(web_url) THEN Reply(InternalResponse(variant))
             ELSE IF ~is_valid_url(web_url.str) THEN Reply(InvalidResponse)
             ELSE Proceed(web_url.str)

(***************************************************************************)
(* Stage 2: extract_text_from_url.  The outcome of requests.get is the     *)
(* environment's: a transport failure, a status, and for a page the text   *)
(* of its p/h1..h6/li elements joined by single spaces.                    *)
(***************************************************************************)
PageOutcome(kind, status, text) == [kind |-> kind, status |-> status, text |-> text]

\* re.sub(r'\s+', ' ', content): every run of whitespace becomes one space.
RECURSIVE CollapseFrom(_, _, _)
CollapseFrom(s, i, acc) ==
    IF i > Len(s) THEN acc
    ELSE IF s[i] \in Whitespace
         THEN IF i > 1 /\ s[i - 1] \in Whitespace
              THEN CollapseFrom(s, i + 1, acc)
              ELSE CollapseFrom(s, i + 1, Append(acc, " "))
         ELSE CollapseFrom(s, i + 1, Append(acc, s[i]))

\* .strip()
Strip(s) ==
    LET N == {i \in 1..Len(s) : s[i] \notin Whitespace}
    IN  IF N = {} THEN <<>>
        ELSE SubSeq(s, CHOOSE i \in N : \A j \in N : i <= j,
                       CHOOSE i \in N : \A j \in N : j <= i)

NoContent == [none |-> TRUE, text |-> <<>>]
Content(text) == [none |-> FALSE, text |-> text]

\* response.raise_for_status(): a 4xx or 5xx status raises HTTPError.
RaiseForStatus(status) == status >= 400

extract_text_from_url(page) ==
    IF page.kind # "response" THEN NoContent
    ELSE IF RaiseForStatus(page.status) THEN NoContent
    ELSE LET content == Strip(CollapseFrom(page.text, 1, <<>>))
         IN  IF content = <<>> THEN NoContent ELSE Content(content)

\* if not content:
NotContent(c) == c.none \/ c.text = <<>>

ExtractFailedResponse == ErrorResponse(400, {"error"})

(***************************************************************************)
(* Stage 3: the word cap and the API key check.                            *)
(***************************************************************************)
\* The word caps of the two programs (300 and 10000), scaled down.
CapApi == 2
CapCli == 3

MaxWords(variant) == IF variant = "web_api" THEN CapApi ELSE CapCli

\* os.getenv("OPENROUTER_API_KEY"): None when the variable is not set.
NoKey == [set |-> FALSE, val |-> <<>>]
Key(val) == [set |-> TRUE, val |-> val]

\* The handler without its API key check.
KeyMissingMutNever(k) == FALSE

\* if not api_key:
KeyMissing(k) == ~k.set \/ k.val = <<>>

KeyMissingResponse == ErrorResponse(500, {"error"})

(***************************************************************************)
(* Stage 4: the POST to the summarization endpoint.  One attempt has one   *)
(* outcome: a response, or a transport error of urllib3.                   *)
(***************************************************************************)
\* The body of an upstream response, as response.json() and the subscripts
\* result["choices"][0]["message"]["content"] see it.
ApiBody(json, hasChoices, choices) ==
    [json |-> json, hasChoices |-> hasChoices, choices |-> choices]
Choice(hasMessage, hasContent, content) ==
    [hasMessage |-> hasMessage, hasContent |-> hasContent, content |-> content]

NotJson == ApiBody(FALSE, FALSE, <<>>)
Good(content) == ApiBody(TRUE, TRUE, <<Choice(TRUE, TRUE, content)>>)

Answer(kind, status, body) == [kind |-> kind, status |-> status, body |-> body]
NoAnswer == Answer("none", 0, NotJson)
Failure(kind) == Answer(kind, 0, NotJson)

\* Retry(total=3, backoff_factor=1, status_forcelist=[429, 500, 502, 503, 504])
RetryTotal == 3
StatusForcelist == {429, 500, 502, 503, 504}

\* requests.post(...) of web-summarize.py goes through the default adapter,
\* whose Retry has total 0.
DefaultRetries == 0

Total(variant) == IF variant = "web_api" THEN RetryTotal ELSE DefaultRetries

Forcelist(variant) == IF variant = "web_api" THEN StatusForcelist ELSE {}

\* Retry(...) is built without allowed_methods, so urllib3's default applies:
\* the idempotent methods, which POST is not among.
AllowedMethods == {"HEAD", "GET", "PUT", "DELETE", "OPTIONS", "TRACE"}

IsMethodRetryable(method) == method \in AllowedMethods

\* Retry.is_retry(method, status_code)
IsRetry(variant, method, status) ==
    IsMethodRetryable(method) /\ status \in Forcelist(variant)

\* urllib3's classes of transport errors (Retry.increment).
ConnectErrors == {"connect_timeout", "refused"}
ReadErrors == {"read_timeout", "reset"}
OtherErrors == {"ssl"}

\* The exception requests raises for the error that ended the call.
RaisedFor(kind) ==
    CASE kind = "connect_timeout" -> "ConnectTimeout"
      [] kind = "read_timeout" -> "ReadTimeout"
      [] kind = "refused" -> "ConnectionError"
      [] kind = "reset" -> "ConnectionError"
      [] kind = "ssl" -> "SSLError"
      [] OTHER -> "RetryError"

\* What one attempt leads to: "retry" (urlopen sends the request again),
\* "return" (the response is handed to the caller) or "raise".
Step(verdict, left, raised) == [verdict |-> verdict, left |-> left, raised |-> raised]

Increment(variant, method, left, answer) ==
    IF answer.kind = "response"
    THEN IF IsRetry(variant, method, answer.status)
         THEN IF left - 1 < 0 THEN Step("raise", left - 1, "RetryError")
              ELSE Step("retry", left - 1, "")
         ELSE Step("return", left, "")
    ELSE IF answer.kind \in ReadErrors /\ ~IsMethodRetryable(method)
         THEN Step("raise", left, RaisedFor(answer.kind))
         ELSE IF left - 1 < 0 THEN Step("raise", left - 1, RaisedFor(answer.kind))
              ELSE Step("retry", left - 1, "")

(***************************************************************************)
(* Stage 5: from the outcome of the call to the HTTP response.             *)
(***************************************************************************)
\* The classes of requests.exceptions an exception is an instance of.
Ancestors(exc) ==
    CASE exc = "ConnectTimeout" ->
            {"ConnectTimeout", "ConnectionError", "Timeout", "RequestException", "Exception"}
      [] exc = "ReadTimeout" -> {"ReadTimeout", "Timeout", "RequestException", "Exception"}
      [] exc = "SSLError" -> {"SSLError", "ConnectionError", "RequestException", "Exception"}
      [] exc = "ConnectionError" -> {"ConnectionError", "RequestException", "Exception"}
      [] exc = "RetryError" -> {"RetryError", "RequestException", "Exception"}
      [] OTHER -> {"Exception"}

Clause(class, status) == [class |-> class, status |-> status]

\* The clauses with the statuses of Timeout and ConnectionError exchanged.
ExceptClausesMutSwapped(variant) ==
    IF variant = "web_api"
    THEN << Clause("Timeout", 503), Clause("ConnectionError", 504),
            Clause("SSLError", 503), Clause("RequestException", 503) >>
    ELSE << >>

\* The except clauses around session.post, in the order they are written;
\* web-summarize.py has none around requests.post.
ExceptClauses(variant) ==
    IF variant = "web_api"
    THEN << Clause("Timeout", 504), Clause("ConnectionError", 503),
            Clause("SSLError", 503), Clause("RequestException", 503) >>
    ELSE << >>

\* The first clause that names a class of the exception handles it; an
\* exception no clause names reaches the outer except Exception.
TransportResponse(variant, exc) ==
    LET cs == ExceptClauses(variant)
        I == {i \in 1..Len(cs) : cs[i].class \in Ancestors(exc)}
    IN  IF I = {} THEN InternalResponse(variant)
        ELSE ErrorResponse(cs[CHOOSE i \in I : \A j \in I : i <= j].status, {"error"})

\* The status check accepting every 2xx status.
StatusNotOkMutAny2xx(status) == status < 200 \/ status > 299

\* if response.status_code != 200:
StatusNotOk(status) == status # 200

UpstreamErrorResponse(variant) ==
    ErrorResponse(500, IF variant = "web_api" THEN {"error", "details"}
                       ELSE {"error", "details", "status_code"})

\* result = response.json(); result["choices"][0]["message"]["content"]
ParseRaises(b) ==
    \/ ~b.json
    \/ ~b.hasChoices
    \/ Len(b.choices) = 0
    \/ ~b.choices[1].hasMessage
    \/ ~b.choices[1].hasContent

ParseErrorResponse(variant) ==
    ErrorResponse(500, IF variant = "web_api" THEN {"error"} ELSE {"error", "details"})

ParsedResponse(variant, b) ==
    IF ParseRaises(b) THEN ParseErrorResponse(variant)
    ELSE SummaryResponse(b.choices[1].content)

FinalResponse(variant, raised, answer) ==
    IF raised # "" THEN TransportResponse(variant, raised)
    ELSE IF StatusNotOk(answer.status) THEN UpstreamErrorResponse(variant)
    ELSE ParsedResponse(variant, answer.body)

(***************************************************************************)
(* The state.                                                              *)
(*   variant   which of the two programs is running                        *)
(*   api_key   the module global read from the environment at start-up     *)
(*   origins   the origins CORS(app, ...) was configured with              *)
(*   req       the requests in flight, one per worker: the handler's       *)
(*             position and locals, the responses it has sent and the log  *)
(*             of the stages and outbound calls it has made                *)
(*   urlArg, urlRes, textArg, capArg, textRes                              *)
(*             an argument and the result of is_valid_url / the truncation *)
(*             when they are exercised on their own                        *)
(***************************************************************************)
VARIABLES variant, api_key, origins, req, urlArg, urlRes, textArg, capArg, textRes

vars == <<variant, api_key, origins, req, urlArg, urlRes, textArg, capArg, textRes>>
fnVars == <<urlArg, urlRes, textArg, capArg, textRes>>
handlerVars == <<variant, api_key, origins, req>>

Variants == {"web_api", "web_summarize"}
Reqs == {"r1", "r2"}

\* CORS(app, ...): the allowed origins of each program.
Origins(v) ==
    IF v = "web_api"
    THEN {"https://lintasai.com", "https://web-production-a20a.up.railway.app"}
    ELSE {"https://lintasai.com"}

(***************************************************************************)
(* The inputs the environment chooses from.                                *)
(***************************************************************************)
SeqsUpTo(S, n) == UNION {[1..k -> S] : k \in 0..n}

Keys == {NoKey, Key(<<>>), Key(<<"s", "k">>)}

Bodies ==
    { Malformed,
      OfScalar(JNull), OfScalar(JNum(0)), OfScalar(JNum(5)),
      OfScalar(JStr(<<>>)), OfScalar(JStr(<<"a">>)), OfScalar(JStr(WEB_URL)),
      JArray(<<>>), JArray(<<JStr(<<"a">>)>>), JArray(<<JStr(WEB_URL)>>),
      JObject(<<>>),
      JObject(<<Member(<<"u", "r", "l">>, JStr(<<"a", ".", "b">>))>>),
      JObject(<<Member(WEB_URL, JNull)>>),
      JObject(<<Member(WEB_URL, JNum(5))>>),
      JObject(<<Member(WEB_URL, JStr(<<>>))>>),
      JObject(<<Member(WEB_URL, JStr(<<"a", " ", "b">>))>>),
      JObject(<<Member(WEB_URL, JStr(HTTP \o <<"l">>))>>),
      JObject(<<Member(WEB_URL, JStr(HTTP \o <<"a", ".", "b">>))>>) }

Pages ==
    { PageOutcome("timeout", 0, <<>>),
      PageOutcome("refused", 0, <<>>),
      PageOutcome("response", 404, <<"a">>),
      PageOutcome("response", 200, <<>>),
      PageOutcome("response", 200, <<" ", NL>>),
      PageOutcome("response", 200, <<"a", " ", "b">>),
      PageOutcome("response", 200, <<"a", NL, " ", "b", " ", "a", " ", "b", " ">>) }

Answers ==
    { Answer("response", 200, NotJson),
      Answer("response", 200, ApiBody(TRUE, TRUE, <<>>)),
      Answer("response", 200, Good(<<"X">>)),
      Answer("response", 200, Good(<<"Y">>)),
      Answer("response", 201, Good(<<"X">>)),
      Answer("response", 400, NotJson),
      Answer("response", 429, NotJson),
      Answer("response", 503, NotJson) }
    \cup {Failure(k) : k \in ConnectErrors \cup ReadErrors \cup OtherErrors}

(***************************************************************************)
(* The handler of POST /summarize, one action per stage.                   *)
(***************************************************************************)
Idle ==
    [pc |-> "idle", data |-> OfScalar(JNull), web_url |-> <<>>,
     page |-> PageOutcome("none", 0, <<>>), content |-> <<>>, left |-> 0,
     last |-> NoAnswer, raised |-> "", out |-> <<>>, log |-> <<>>]

\* A handler that resets the module global api_key.
ConfigUnwrittenMutClearsKey == api_key' = NoKey /\ UNCHANGED origins

\* summarize() has no global statement and assigns to no module global.
ConfigUnwritten == UNCHANGED <<api_key, origins>>

Set(r, new) == req' = [req EXCEPT ![r] = new] /\ ConfigUnwritten /\ UNCHANGED <<variant, fnVars>>

\* A response built without the return: the handler goes on.
ReturnMutFallsThrough(q, resp, events) ==
    [q EXCEPT !.out = Append(q.out, resp), !.log = q.log \o events \o <<"return">>]

\* return jsonify(...), status: the handler is over.
Return(q, resp, events) ==
    [q EXCEPT !.pc = "done", !.out = Append(q.out, resp),
              !.log = q.log \o events \o <<"return">>]

\* A request arrives at a free worker.
Arrive(r, data) ==
    /\ req[r].pc \in {"idle", "done"}
    /\ Set(r, [Idle EXCEPT !.pc = "received", !.data = data])

\* data = request.get_json() ... if not is_valid_url(web_url): return ..., 400
Receive(r) ==
    /\ req[r].pc = "received"
    /\ LET q == req[r]
           st == InputStage(variant, q.data)
       IN  Set(r, IF st.ok
                  THEN [q EXCEPT !.pc = "fetch", !.web_url = st.url,
                                 !.log = Append(q.log, "validate")]
                  ELSE Return(q, st.resp, <<"validate">>))

\* content = extract_text_from_url(web_url); if not content: return ..., 400
Fetch(r, page) ==
    /\ req[r].pc = "fetch"
    /\ LET q == req[r]
           c == extract_text_from_url(page)
       IN  Set(r, IF NotContent(c)
                  THEN Return([q EXCEPT !.page = page], ExtractFailedResponse, <<"fetch">>)
                  ELSE [q EXCEPT !.pc = "prepare", !.page = page, !.content = c.text,
                                 !.log = Append(q.log, "fetch")])

\* the word cap, then: if not api_key: return ..., 500
Prepare(r) ==
    /\ req[r].pc = "prepare"
    /\ LET q == [req[r] EXCEPT !.content = Truncate(req[r].content, MaxWords(variant))]
       IN  Set(r, IF KeyMissing(api_key)
                  THEN Return(q, KeyMissingResponse, <<"truncate", "keycheck">>)
                  ELSE [q EXCEPT !.pc = "call", !.left = Total(variant),
                                 !.log = q.log \o <<"truncate", "keycheck">>])

\* One attempt of session.post / requests.post and what the Retry object
\* makes of its outcome.
Attempt(r, answer) ==
    /\ req[r].pc = "call"
    /\ LET q == req[r]
           st == Increment(variant, "POST", q.left, answer)
       IN  Set(r, [q EXCEPT !.pc = IF st.verdict = "retry" THEN "call" ELSE "respond",
                            !.left = st.left, !.last = answer, !.raised = st.raised,
                            !.log = Append(q.log, "post")])

\* the except clauses, the status check and the parse of the response
Respond(r) ==
    /\ req[r].pc = "respond"
    /\ LET q == req[r]
       IN  Set(r, Return(q, FinalResponse(variant, q.raised, q.last), <<>>))

FnIdle == urlArg = <<>> /\ urlRes = <<>> /\ textArg = <<>> /\ capArg = 0 /\ textRes = <<>>

Init ==
    /\ variant \in Variants
    /\ api_key \in Keys
    /\ origins = Origins(variant)
    /\ req = [r \in Reqs |-> Idle]
    /\ FnIdle

Next ==
    \E r \in Reqs :
        \/ \E data \in Bodies : Arrive(r, data)
        \/ Receive(r)
        \/ \E page \in Pages : Fetch(r, page)
        \/ Prepare(r)
        \/ \E answer \in Answers : Attempt(r, answer)
        \/ Respond(r)

Spec == Init /\ [][Next]_vars

(***************************************************************************)
(* is_valid_url on its own: every string made of an optional scheme-like   *)
(* prefix and up to MaxUrlBody further characters.                         *)
(***************************************************************************)
MaxUrlBody == 5

UrlAlphabet == {"a", ".", "/", " ", NL}

UrlPrefixes == {<<>>, HTTP, HTTPS, <<"h", "t", "t", "p", ":", "/">>}

UrlInputs == {p \o b : p \in UrlPrefixes, b \in SeqsUpTo(UrlAlphabet, MaxUrlBody)}

HandlerIdle ==
    /\ variant = "web_api"
    /\ api_key = NoKey
    /\ origins = Origins(variant)
    /\ req = [r \in Reqs |-> Idle]

InitUrl ==
    /\ HandlerIdle
    /\ urlArg \in UrlInputs
    /\ urlRes = <<>>
    /\ textArg = <<>> /\ capArg = 0 /\ textRes = <<>>

\* is_valid_url(url)
CallIsValidUrl ==
    /\ urlRes = <<>>
    /\ urlRes' = <<is_valid_url(urlArg)>>
    /\ UNCHANGED <<handlerVars, urlArg, textArg, capArg, textRes>>

SpecUrl == InitUrl /\ [][CallIsValidUrl]_vars

(***************************************************************************)
(* The truncation on its own: every text of up to MaxText characters,      *)
(* under the word cap of either program.                                   *)
(***************************************************************************)
MaxText == 7

TextAlphabet == {"a", " ", NL}

InitTrunc ==
    /\ HandlerIdle
    /\ textArg \in SeqsUpTo(TextAlphabet, MaxText)
    /\ capArg \in {MaxWords(v) : v \in Variants}
    /\ textRes = <<>>
    /\ urlArg = <<>> /\ urlRes = <<>>

\* if len(content.split()) > n: content = " ".join(content.split()[:n])
CallTruncate ==
    /\ textRes = <<>>
    /\ textRes' = <<Truncate(textArg, capArg)>>
    /\ UNCHANGED <<handlerVars, urlArg, urlRes, textArg, capArg>>

SpecTrunc == InitTrunc /\ [][CallTruncate]_vars

(***************************************************************************)
(* Properties of is_valid_url.                                             *)
(***************************************************************************)
Range(s) == {s[i] : i \in 1..Len(s)}

\* The suffix of s that starts at position i.
Suffix(s, i) == SubSeq(s, i, Len(s))

LabelRun(s, i, j) == i <= j /\ j <= Len(s) /\ \A k \in i..j : IsLabelChar(s[k])

\* s begins with label "." label, each label one or more of [\w\-].
BeginsWithHost(s) ==
    \E i \in 1..Len(s) : \E j \in 1..Len(s) :
        LabelRun(s, 1, i) /\ i + 1 <= Len(s) /\ s[i + 1] = "." /\ LabelRun(s, i + 2, j)

\* s, and s without a leading "http://" or "https://".
Remainders(s) ==
    {s} \cup (IF StartsWith(s, HTTP) THEN {Suffix(s, Len(HTTP) + 1)} ELSE {})
        \cup (IF StartsWith(s, HTTPS) THEN {Suffix(s, Len(HTTPS) + 1)} ELSE {})

HasHost(s) == \E t \in Remainders(s) : BeginsWithHost(t)

\* No line feed other than one that ends the string.
NoInnerLineFeed(s) == \A i \in 1..(Len(s) - 1) : s[i] # NL

\* C8 as stated: is_valid_url is false for every string that, after an
\* optional http:// or https://, does not begin with a host of two or more
\* dot-separated labels, and true for every string that does, whatever follows.
C8_AsStated == urlRes # <<>> => (urlRes[1] <=> HasHost(urlArg))

\* C8 amended: is_valid_url is false for every string that does not begin
\* with such a host, and true for every string that does, provided the string
\* holds no line feed other than a final one; with a line feed elsewhere it
\* is false.
C8_HostRule == urlRes # <<>> => (urlRes[1] <=> (HasHost(urlArg) /\ NoInnerLineFeed(urlArg)))

\* An https URL with a path and a final line feed was accepted.
C8_Witness ==
    /\ urlRes = <<TRUE>>
    /\ StartsWith(urlArg, HTTPS)
    /\ "/" \in Range(Suffix(urlArg, Len(HTTPS) + 1))
    /\ urlArg[Len(urlArg)] = NL

(***************************************************************************)
(* Properties of the truncation.                                           *)
(***************************************************************************)
\* The positions where a word (a maximal run of non-whitespace) starts.
WordStarts(t) ==
    {i \in 1..Len(t) : t[i] \notin Whitespace /\ (i = 1 \/ t[i - 1] \in Whitespace)}

WordCount(t) == Cardinality(WordStarts(t))

\* The k-th word of t.
KthWord(t, k) ==
    LET i == CHOOSE x \in WordStarts(t) : Cardinality({y \in WordStarts(t) : y <= x}) = k
        E == {j \in i..Len(t) : \A x \in i..j : t[x] \notin Whitespace}
    IN  SubSeq(t, i, CHOOSE j \in E : \A x \in E : x <= j)

\* r is n words, separated by single spaces and nothing else.
SingleSpaced(r) ==
    \A i \in 1..Len(r) :
        r[i] \in Whitespace =>
            /\ r[i] = " "
            /\ 1 < i /\ i < Len(r)
            /\ r[i - 1] \notin Whitespace /\ r[i + 1] \notin Whitespace

\* C7: the truncation yields at most n words; for a text of more than n words
\* the first n words joined by single spaces, for a text of n words or fewer
\* the text unchanged; and it always yields a result.
C7_Truncate ==
    /\ textRes = <<>> => ENABLED CallTruncate
    /\ textRes # <<>> =>
        LET r == textRes[1]
        IN  /\ WordCount(r) <= capArg
            /\ WordCount(textArg) > capArg =>
                  /\ WordCount(r) = capArg
                  /\ SingleSpaced(r)
                  /\ \A k \in 1..capArg : KthWord(r, k) = KthWord(textArg, k)
            /\ WordCount(textArg) <= capArg => r = textArg

\* A text of one word more than the cap, with a line feed in it, was cut.
C7_Witness ==
    /\ textRes # <<>>
    /\ WordCount(textArg) = capArg + 1
    /\ NL \in Range(textArg)
    /\ textRes[1] # textArg
    /\ WordCount(textRes[1]) = capArg

(***************************************************************************)
(* Properties of the handler.                                              *)
(***************************************************************************)
Count(log, e) == Cardinality({i \in 1..Len(log) : log[i] = e})

\* The attempts sent to the summarization endpoint so far.
Posts(q) == Count(q.log, "post")

\* The request has made its upstream call and the call is over.
CallOver(q) == q.pc \in {"respond", "done"} /\ Posts(q) > 0

TransientStatuses == {429, 500, 502, 503, 504}

\* C1 as stated: an answer of 429/500/502/503/504 makes the client send the
\* POST again, up to 3 more times (4 attempts in all) before the call fails;
\* after an answer of any other status no further attempt is sent.
C1_RetriesOnTransientStatus ==
    \A r \in Reqs :
        LET q == req[r]
        IN  /\ Posts(q) <= 4
            /\ (q.pc = "call" /\ q.last.kind = "response")
                  => q.last.status \in TransientStatuses
            /\ (CallOver(q) /\ q.last.kind = "response"
                            /\ q.last.status \in TransientStatuses)
                  => Posts(q) = 4

FinalAnswer(q) == q.pc = "done" /\ Posts(q) > 0 /\ q.raised = "" /\ q.last.kind = "response"

\* The body parses as JSON with choices[0].message.content.
HasShape(b) ==
    /\ b.json /\ b.hasChoices /\ Len(b.choices) >= 1
    /\ b.choices[1].hasMessage /\ b.choices[1].hasContent

IsError(resp) == "error" \in resp.keys

IsSummary(resp, x) == resp.status = 200 /\ resp.keys = {"summary"} /\ resp.summary = x

\* The three cases of C3 for the statuses in Ok.
AnswerRule(Ok) ==
    \A r \in Reqs :
        LET q == req[r]
        IN  FinalAnswer(q) =>
               /\ q.last.status \notin Ok
                     => (q.out[1].status = 500 /\ IsError(q.out[1]))
               /\ (q.last.status \in Ok /\ HasShape(q.last.body))
                     => IsSummary(q.out[1], q.last.body.choices[1].content)
               /\ (q.last.status \in Ok /\ ~HasShape(q.last.body))
                     => (q.out[1].status = 500 /\ IsError(q.out[1]))

\* C3 as stated: a final non-2xx status yields 500 with an error field; a 2xx
\* status with choices[0].message.content = X yields 200 {"summary": X}; a 2xx
\* status without that shape yields 500 with an error field.
C3_AsStated == AnswerRule(200..299)

\* C3 amended: a final status other than 200 (201 and the other 2xx
\* included) yields 500 with an error field; status 200 with
\* choices[0].message.content = X yields 200 {"summary": X}; status 200
\* without that shape yields 500 with an error field.
C3_Status200Rule == AnswerRule({200})

\* A 201 answer of the right shape was answered 500, and a 200 one by its summary.
C3_Witness ==
    /\ req["r1"].pc = "done" /\ FinalAnswer(req["r1"])
    /\ req["r1"].last.status = 201 /\ HasShape(req["r1"].last.body)
    /\ req["r1"].out[1].status = 500
    /\ req["r2"].pc = "done" /\ FinalAnswer(req["r2"])
    /\ req["r2"].last.status = 200 /\ HasShape(req["r2"].last.body)
    /\ IsSummary(req["r2"].out[1], <<"X">>)

\* The body is a JSON value (not a parse failure) that has no web_url, or
\* whose web_url is not a string is_valid_url accepts.
MissingOrInvalid(d) ==
    /\ d.kind # "malformed"
    /\ ~ (/\ d.kind = "object"
          /\ \E i \in 1..Len(d.members) :
                /\ d.members[i].key = WEB_URL
                /\ d.members[i].val.kind = "string"
                /\ is_valid_url(d.members[i].val.str))

\* C4 as stated: whatever JSON value the body is and whatever web_url holds,
\* a missing web_url or one that fails is_valid_url is answered 400 with an
\* error field, and neither the page fetch nor the upstream call is made.
C4_BadInputIs400 ==
    \A r \in Reqs :
        LET q == req[r]
        IN  (q.pc \notin {"idle", "received"} /\ MissingOrInvalid(q.data)) =>
               /\ q.pc = "done"
               /\ q.out[1].status = 400 /\ IsError(q.out[1])
               /\ Count(q.log, "fetch") = 0 /\ Posts(q) = 0

\* The failure classes of C5, read off what the request went through.
ClientFault(q) == q.pc = "done" /\ Count(q.log, "fetch") = 0
PageFetchFault(q) ==
    /\ q.pc = "done" /\ Count(q.log, "fetch") = 1
    /\ (q.page.kind # "response" \/ q.page.status \notin 200..299)
KeyFault(q) == q.pc = "done" /\ Count(q.log, "keycheck") = 1 /\ Posts(q) = 0
UpstreamFault(q) == q.pc = "done" /\ Posts(q) > 0 /\ IsError(q.out[1])

\* C5 as stated: a failed request is answered 4xx when the client's input
\* caused the failure (missing field, malformed URL) and 5xx when a service
\* or network fault did (page fetch failure or non-2xx page status, missing
\* API key, upstream error or transport failure, unparsable upstream response).
C5_StatusByFailureClass ==
    \A r \in Reqs :
        LET q == req[r]
        IN  /\ ClientFault(q) => q.out[1].status \in 400..499
            /\ (PageFetchFault(q) \/ KeyFault(q) \/ UpstreamFault(q))
                  => q.out[1].status \in 500..599

IsSuccess(resp) == resp.status = 200 /\ "summary" \in resp.keys /\ "error" \notin resp.keys
IsFailure(resp) ==
    resp.status \in 400..599 /\ "error" \in resp.keys /\ "summary" \notin resp.keys

\* C6: a request is answered exactly once, by a success (200, a summary
\* field, no error field) or by a failure (4xx/5xx, an error field, no
\* summary field); the return is the last thing the handler does, so no stage
\* runs after the one that failed, and a summary is returned only when every
\* stage succeeded.
C6_OneResponse ==
    \A r \in Reqs :
        LET q == req[r]
        IN  /\ Len(q.out) <= 1
            /\ Count(q.log, "return") = Len(q.out)
            /\ q.pc = "done" <=> Len(q.out) = 1
            /\ Len(q.out) = 1 =>
                  /\ q.log[Len(q.log)] = "return"
                  /\ IsSuccess(q.out[1]) \/ IsFailure(q.out[1])
                  /\ ~ (IsSuccess(q.out[1]) /\ IsFailure(q.out[1]))
                  /\ IsSuccess(q.out[1]) =>
                        /\ is_valid_url(q.web_url)
                        /\ q.page.kind = "response" /\ q.page.status < 400
                        /\ q.content # <<>>
                        /\ api_key.set /\ api_key.val # <<>>
                        /\ q.raised = "" /\ q.last.kind = "response"
                        /\ q.last.status = 200 /\ HasShape(q.last.body)
                        /\ q.out[1].summary = q.last.body.choices[1].content

\* One request was answered by a summary and the other by a failure of the
\* input stage.
C6_Witness ==
    /\ req["r1"].pc = "done" /\ IsSuccess(req["r1"].out[1])
    /\ req["r2"].pc = "done" /\ IsFailure(req["r2"].out[1])
    /\ req["r2"].log = <<"validate", "return">>

\* e comes before position i of the log.
Before(log, e, i) == \E j \in 1..(i - 1) : log[j] = e

\* The positions of the log are in the order of the stages.
InStageOrder(log) ==
    \A i \in 1..Len(log) :
        CASE log[i] = "validate" -> i = 1
          [] log[i] = "fetch" -> i = 2
          [] log[i] = "truncate" -> i = 3
          [] log[i] = "keycheck" -> i = 4
          [] log[i] = "post" -> i >= 5 /\ (i > 5 => log[i - 1] = "post")
          [] log[i] = "return" -> i = Len(log)
          [] OTHER -> FALSE

\* C9: the stages of a request run in the order validate, fetch and extract,
\* truncate, call, respond; the page is fetched at most once (never again
\* after a failure or a timeout); and an upstream attempt is made only after
\* the URL passed validation, the one page fetch completed with non-empty
\* text, the text was capped to the word limit and the API key is present.
C9_StageOrder ==
    \A r \in Reqs :
        LET q == req[r]
        IN  /\ InStageOrder(q.log)
            /\ Count(q.log, "fetch") <= 1
            /\ (Count(q.log, "fetch") = 1 /\ q.pc = "done" /\ Posts(q) = 0
                    /\ Count(q.log, "truncate") = 0)
                  => (q.page.kind # "response" \/ q.page.status >= 400
                         \/ WordCount(q.page.text) = 0)
            /\ Posts(q) > 0 =>
                  /\ is_valid_url(q.web_url)
                  /\ Before(q.log, "validate", 5) /\ Before(q.log, "fetch", 5)
                  /\ Before(q.log, "truncate", 5) /\ Before(q.log, "keycheck", 5)
                  /\ q.page.kind = "response"
                  /\ q.content # <<>>
                  /\ WordCount(q.content) <= MaxWords(variant)
                  /\ api_key.set /\ api_key.val # <<>>

\* A request whose page was longer than the cap went through four upstream
\* attempts, while the other request failed at its page fetch.
C9_Witness ==
    /\ req["r1"].pc = "done" /\ Posts(req["r1"]) = 4
    /\ WordCount(req["r1"].page.text) > MaxWords(variant)
    /\ req["r2"].pc = "done" /\ req["r2"].page.kind = "timeout"
    /\ req["r2"].log = <<"validate", "fetch", "return">>

\* What a finished request's response may depend on.
Inputs(q) == <<q.data, q.page, q.last, Posts(q)>>

\* C10: no step of any request, in any interleaving, changes the API key or
\* the allowed origins; and two finished requests with the same body, the
\* same page outcome and the same upstream outcome have the same response,
\* whatever the other request did meanwhile.
C10_NoSharedWrites ==
    /\ [][api_key' = api_key /\ origins' = origins]_vars
    /\ [](\A r1 \in Reqs : \A r2 \in Reqs :
            (req[r1].pc = "done" /\ req[r2].pc = "done"
                /\ Inputs(req[r1]) = Inputs(req[r2]))
              => req[r1].out = req[r2].out)

\* Both requests ran to a summary on the same inputs while the key and the
\* origins are those of start-up.
C10_Witness ==
    /\ req["r1"].pc = "done" /\ req["r2"].pc = "done"
    /\ Inputs(req["r1"]) = Inputs(req["r2"])
    /\ IsSuccess(req["r1"].out[1]) /\ IsSuccess(req["r2"].out[1])
    /\ api_key = Key(<<"s", "k">>) /\ origins = Origins(variant)

====
